---- MODULE Spec2Model ----
(***************************************************************************)
(* Model of saransathish/Video-language-converter (src/main.py).           *)
(*                                                                         *)
(* Spec      : the subtitle pipeline srt_to_dutch_speech (lines 509-583):  *)
(*             download, parse, silent timeline, per-cue translate /       *)
(*             synthesize / load / overlay, export, upload.                *)
(* SpecChunk : the whole-transcript translate_text (lines 159-187) and     *)
(*             synthesize_speech (lines 189-274) with their chunking of    *)
(*             oversized text.                                             *)
(* SpecMain  : the whole-transcript pipeline main (lines 354-399) with     *)
(*             simple_translate_and_synthesize (276-314), transcribe_audio *)
(*             (102-157) and its polling loop, and the two functions of    *)
(*             SpecChunk run on the transcript.                            *)
(*                                                                         *)
(* Time is counted in milliseconds, as pydub does for len(), slicing and   *)
(* the overlay position; an audio segment is its frame rate and one        *)
(* amplitude per millisecond.                                              *)
(***************************************************************************)
EXTENDS Integers, Sequences, FiniteSets, TLC

VARIABLES
    pc,            \* position in srt_to_dutch_speech
    subtitles,     \* the parsed cue list, in file order: [start, end] in ms
    idx,           \* index of the cue the loop is at (1-based)
    final_audio,   \* the timeline: [frame_rate, data]
    audio_file,    \* what generate_speech wrote for the current cue
    placed,        \* per processed cue: the clip that was overlaid, or Absent
    dutch_text,    \* the text handed to generate_speech: "dutch", or "source"
                   \* when the translation request raised ("" outside an
                   \* iteration of the loop)
    untranslated,  \* how many cues so far had their translation request raise
    result,        \* return value of srt_to_dutch_speech
    exported,      \* final_audio.export has written final_output.mp3
    uploaded,      \* upload_to_s3 has stored the output
    fatal,         \* the error logged right before `return None` ("" if none)
    t_mode,        \* chunk run: "translate" or "synth"
    t_pc,          \* chunk run: position
    t_text,        \* chunk run: the text argument (after strip for synth)
    t_chunks,      \* chunk run: the chunks list
    t_i,           \* chunk run: index of the next chunk to send
    t_requests,    \* chunk run: the Text of every request issued, in order
    t_out,         \* chunk run: translated_chunks / the part files written
    t_voice,       \* chunk run: synthesize_speech's voice_id
    t_file,        \* chunk run: the content of output_path
    t_result,      \* chunk run: the return value [ret, text]: ret is "running",
                   \* "None", "str" (text is the string), "True" or "False"
    m_pc,          \* position in main / simple_translate_and_synthesize /
                   \* transcribe_audio
    m_log,         \* the pipeline steps started so far, in order
    m_ok,          \* the pipeline steps that reported success, in order
    m_fatal,       \* the error main logged before it returned ("" if none)
    m_uploaded,    \* the target video was uploaded
    job_status,    \* TranscriptionJobStatus of the Amazon Transcribe job
    polls,         \* get_transcription_job calls made (counted up to MaxPolls)
    transcript     \* what transcribe_audio returned: [ret, text]

cvars == <<pc, subtitles, idx, final_audio, audio_file, placed, dutch_text,
           untranslated, result, exported, uploaded, fatal>>
tvars == <<t_mode, t_pc, t_text, t_chunks, t_i, t_requests, t_out, t_voice, t_file,
           t_result>>
mvars == <<m_pc, m_log, m_ok, m_fatal, m_uploaded, job_status, polls, transcript>>
vars == <<pc, subtitles, idx, final_audio, audio_file, placed, dutch_text,
          untranslated, result, exported, uploaded, fatal,
          t_mode, t_pc, t_text, t_chunks, t_i, t_requests, t_out, t_voice, t_file,
          t_result,
          m_pc, m_log, m_ok, m_fatal, m_uploaded, job_status, polls, transcript>>

----------------------------------------------------------------------------
(* Bounds of the model. *)

\* largest number of cues in a parsed SRT file
MaxCues == 2
\* largest start / end time of a cue, in ms
MaxMs == 2
\* longest synthesized clip, in ms
MaxClipLen == 2
\* largest sample value of the format (16 bit in pydub: 32767)
MaxSample == 1
\* a text has up to MaxChunks full request sizes of characters ...
MaxChunks == 2
\* ... give or take MaxSlack characters
MaxSlack == 1
\* most blanks before and after the text
MaxPad == 1
\* the polls of the transcription job are counted up to this number
MaxPolls == 3

\* smallest sample value of the two's complement format
MinSample == -(MaxSample + 1)
Samples == MinSample..MaxSample

----------------------------------------------------------------------------
(* Values. *)

None == "None"
Running == "running"
S3Uri == "s3://output_bucket/output_audio_key"
\* a return value of translate_text / synthesize_speech
Returned(ret, text) == [ret |-> ret, text |-> text]

\* frame rate of AudioSegment.silent(duration=...) when none is given
SilentFrameRate == 11025
\* frame rate of the mp3 Polly returns when SampleRate is not requested
PollyFrameRate == 22050
ClipFrameRates == {SilentFrameRate, PollyFrameRate}

Absent == [present |-> FALSE, frame_rate |-> 0, data |-> <<>>]
NoAudio == [frame_rate |-> 0, data |-> <<>>]

\* all sequences over S of length lo..hi
SeqsOf(S, lo, hi) == UNION {[1..n -> S] : n \in lo..hi}

Cues == [start : 0..MaxMs, end : 0..MaxMs]
CueLists == SeqsOf(Cues, 0, MaxCues)
Clips == [present : {TRUE}, frame_rate : ClipFrameRates,
          data : SeqsOf(Samples, 1, MaxClipLen)]

Max(a, b) == IF a >= b THEN a ELSE b
Min(a, b) == IF a <= b THEN a ELSE b

----------------------------------------------------------------------------
(* pydub's AudioSegment as srt_to_dutch_speech uses it. *)

\* AudioSegment.silent(duration=d): d ms of zero samples at the default rate
Silent(d) == [frame_rate |-> SilentFrameRate, data |-> [i \in 1..d |-> 0]]

\* seg.set_frame_rate(r): the same signal, the same length in ms, at rate r
SetFrameRate(seg, r) == [seg EXCEPT !.frame_rate = r]

\* AudioSegment._sync(seg1, seg2): both at the larger of the two frame rates
Sync(seg1, seg2) ==
    LET r == Max(seg1.frame_rate, seg2.frame_rate)
    IN  <<SetFrameRate(seg1, r), SetFrameRate(seg2, r)>>

\* data[:ms] and data[ms:], both ends clipped to the segment's length
SliceTo(data, ms) == SubSeq(data, 1, Min(ms, Len(data)))
SliceFrom(data, ms) == SubSeq(data, Min(ms, Len(data)) + 1, Len(data))

\* mutant of Saturate: the sum wraps around in the sample width
SaturateWraps(x) ==
    IF x > MaxSample THEN x - (MaxSample - MinSample + 1)
    ELSE IF x < MinSample THEN x + (MaxSample - MinSample + 1) ELSE x

\* one sample of audioop.add: the sum, clipped to the sample range
Saturate(x) == IF x > MaxSample THEN MaxSample
               ELSE IF x < MinSample THEN MinSample ELSE x

\* audioop.add(a, b, width) on two fragments of the same length
Add(a, b) == [i \in 1..Len(a) |-> Saturate(a[i] + b[i])]

\* mutant of Overlay: a clip that does not fit extends the timeline
OverlayExtends(seg1, seg2, position) ==
    LET r    == Max(seg1.frame_rate, seg2.frame_rate)
        need == Max(Len(seg1.data), position + Len(seg2.data))
        base == [i \in 1..need |-> IF i <= Len(seg1.data) THEN seg1.data[i] ELSE 0]
    IN  [frame_rate |-> r,
         data |-> [i \in 1..need |->
                     IF i > position /\ i <= position + Len(seg2.data)
                     THEN IF base[i] + seg2.data[i - position] > MaxSample THEN MaxSample
                          ELSE IF base[i] + seg2.data[i - position] < MinSample THEN MinSample
                          ELSE base[i] + seg2.data[i - position]
                     ELSE base[i]]]

\* mutant of Overlay: the samples past the end wrap around to the start
OverlayWraps(seg1, seg2, position) ==
    LET r == Max(seg1.frame_rate, seg2.frame_rate)
        L == Len(seg1.data)
        Hit(i) == {k \in 1..Len(seg2.data) : L > 0 /\ ((position + k - 1) % L) + 1 = i}
        Mix(i) == IF Hit(i) = {} THEN seg1.data[i]
                  ELSE LET k == CHOOSE k \in Hit(i) : \A j \in Hit(i) : k <= j
                           v == seg1.data[i] + seg2.data[k]
                       IN  IF v > MaxSample THEN MaxSample
                           ELSE IF v < MinSample THEN MinSample ELSE v
    IN  [frame_rate |-> r, data |-> [i \in 1..L |-> Mix(i)]]

\* mutant of Overlay: the clip lands one millisecond late
OverlayOffByOne(seg1, seg2, position) ==
    LET r    == Max(seg1.frame_rate, seg2.frame_rate)
        L    == Len(seg1.data)
        from == position + 1
    IN  [frame_rate |-> r,
         data |-> [i \in 1..L |->
                     IF i > from /\ i <= from + Len(seg2.data)
                     THEN IF seg1.data[i] + seg2.data[i - from] > MaxSample THEN MaxSample
                          ELSE IF seg1.data[i] + seg2.data[i - from] < MinSample THEN MinSample
                          ELSE seg1.data[i] + seg2.data[i - from]
                     ELSE seg1.data[i]]]

\* seg1.overlay(seg2, position=position), loop=False, times=1
Overlay(seg1, seg2, position) ==
    LET sy        == Sync(seg1, seg2)
        head      == SliceTo(sy[1].data, position)
        rest      == SliceFrom(sy[1].data, position)
        remaining == Max(0, Len(rest))
        clip      == IF Len(sy[2].data) >= remaining
                     THEN SubSeq(sy[2].data, 1, remaining)
                     ELSE sy[2].data
        n         == Len(clip)
    IN  [frame_rate |-> sy[1].frame_rate,
         data |-> head \o Add(SubSeq(rest, 1, n), clip) \o SubSeq(rest, n + 1, Len(rest))]

----------------------------------------------------------------------------
(* srt_to_dutch_speech *)

\* mutant of TotalDuration: the largest end time of all cues
TotalDurationMax(subs) ==
    CHOOSE m \in {subs[i].end : i \in 1..Len(subs)} :
        \A i \in 1..Len(subs) : subs[i].end <= m

\* total_duration_ms = subtitles[-1].end.ordinal
TotalDuration(subs) == subs[Len(subs)].end

\* the for loop's next iteration, or the statement after the loop
NextCue(i, subs) == IF i < Len(subs) THEN "translate" ELSE "export"

\* mutant of AfterSkip: `break` in place of `continue`
AfterSkipBreaks(i, subs) == "export"

\* the pc after the current cue was skipped with `continue`
AfterSkip(i, subs) == NextCue(i, subs)

\* the per-cue loop of srt_to_dutch_speech as a function of the cue list and
\* of what synthesis and loading gave for each cue
RECURSIVE OverlayAll(_, _, _, _)
OverlayAll(audio, subs, clips, i) ==
    IF i > Len(subs) THEN audio
    ELSE OverlayAll(IF clips[i].present
                    THEN Overlay(audio,
                                 [frame_rate |-> clips[i].frame_rate, data |-> clips[i].data],
                                 subs[i].start)
                    ELSE audio,
                    subs, clips, i + 1)

\* the timeline srt_to_dutch_speech exports for a non-empty cue list
Composite(subs, clips) == OverlayAll(Silent(TotalDuration(subs)), subs, clips, 1)

\* logger.error(msg); return None
ReturnNone(msg) ==
    /\ pc' = "done"
    /\ result' = None
    /\ fatal' = msg

Init ==
    /\ pc = "download"
    /\ subtitles = <<>>
    /\ idx = 0
    /\ final_audio = NoAudio
    /\ audio_file = NoAudio
    /\ placed = <<>>
    /\ dutch_text = ""
    /\ untranslated = 0
    /\ result = Running
    /\ exported = FALSE
    /\ uploaded = FALSE
    /\ fatal = ""
    /\ t_mode = "idle"
    /\ t_pc = "idle"
    /\ t_text = <<>>
    /\ t_chunks = <<>>
    /\ t_i = 0
    /\ t_requests = <<>>
    /\ t_out = <<>>
    /\ t_voice = ""
    /\ t_file = <<>>
    /\ t_result = Returned(Running, <<>>)
    /\ m_pc = "idle"
    /\ m_log = <<>>
    /\ m_ok = <<>>
    /\ m_fatal = ""
    /\ m_uploaded = FALSE
    /\ job_status = "NONE"
    /\ polls = 0
    /\ transcript = Returned(Running, <<>>)

\* download_srt_from_s3 returned True
DownloadOk ==
    /\ pc = "download"
    /\ pc' = "parse"
    /\ UNCHANGED <<subtitles, idx, final_audio, audio_file, placed, dutch_text,
                   untranslated, result, exported, uploaded, fatal>>
    /\ UNCHANGED tvars
    /\ UNCHANGED mvars

\* download_srt_from_s3 returned False
DownloadFail ==
    /\ pc = "download"
    /\ ReturnNone("Failed to download SRT file. Aborting.")
    /\ UNCHANGED <<subtitles, idx, final_audio, audio_file, placed, dutch_text,
                   untranslated, exported, uploaded>>
    /\ UNCHANGED tvars
    /\ UNCHANGED mvars

\* pysrt.open returned the cue list
ParseOk ==
    /\ pc = "parse"
    /\ \E subs \in CueLists : subtitles' = subs
    /\ pc' = "blank"
    /\ UNCHANGED <<idx, final_audio, audio_file, placed, dutch_text,
                   untranslated, result, exported, uploaded, fatal>>
    /\ UNCHANGED tvars
    /\ UNCHANGED mvars

\* pysrt.open raised
ParseFail ==
    /\ pc = "parse"
    /\ ReturnNone("Error parsing SRT file")
    /\ UNCHANGED <<subtitles, idx, final_audio, audio_file, placed, dutch_text,
                   untranslated, exported, uploaded>>
    /\ UNCHANGED tvars
    /\ UNCHANGED mvars

\* if len(subtitles) > 0: the silent timeline of the last cue's end time
CreateBlank ==
    /\ pc = "blank"
    /\ Len(subtitles) > 0
    /\ final_audio' = Silent(TotalDuration(subtitles))
    /\ idx' = 1
    /\ pc' = "translate"
    /\ UNCHANGED <<subtitles, audio_file, placed, dutch_text,
                   untranslated, result, exported, uploaded, fatal>>
    /\ UNCHANGED tvars
    /\ UNCHANGED mvars

\* mutant of NoSubtitles: a silent track of a default length is produced
NoSubtitlesFallback ==
    /\ pc = "blank"
    /\ Len(subtitles) = 0
    /\ final_audio' = [frame_rate |-> SilentFrameRate, data |-> [i \in 1..MaxMs |-> 0]]
    /\ pc' = "export"
    /\ UNCHANGED <<subtitles, idx, audio_file, placed, dutch_text,
                   untranslated, result, exported, uploaded, fatal>>
    /\ UNCHANGED tvars
    /\ UNCHANGED mvars

\* else: "No subtitles found in the SRT file", return None
NoSubtitles ==
    /\ pc = "blank"
    /\ Len(subtitles) = 0
    /\ ReturnNone("No subtitles found in the SRT file")
    /\ UNCHANGED <<subtitles, idx, final_audio, audio_file, placed, dutch_text,
                   untranslated, exported, uploaded>>
    /\ UNCHANGED tvars
    /\ UNCHANGED mvars

\* mutant of Translate: a cue whose translation request raised is skipped
TranslateFailSkips ==
    /\ pc = "translate"
    /\ \/ /\ dutch_text' = "dutch"
          /\ pc' = "speech"
          /\ UNCHANGED <<idx, audio_file, placed, untranslated>>
       \/ /\ dutch_text' = ""
          /\ untranslated' = untranslated + 1
          /\ placed' = Append(placed, Absent)
          /\ pc' = AfterSkip(idx, subtitles)
          /\ idx' = IF idx < Len(subtitles) THEN idx + 1 ELSE idx
          /\ audio_file' = NoAudio
    /\ UNCHANGED <<subtitles, final_audio, result, exported, uploaded, fatal>>
    /\ UNCHANGED tvars
    /\ UNCHANGED mvars

\* dutch_text = translate_text(subtitle_text, 'nl'): the translation, or the
\* original text when the request raised; the loop goes on either way
Translate ==
    /\ pc = "translate"
    /\ \E text \in {"dutch", "source"} :
          /\ dutch_text' = text
          /\ untranslated' = IF text = "source" THEN untranslated + 1 ELSE untranslated
    /\ pc' = "speech"
    /\ UNCHANGED <<subtitles, idx, final_audio, audio_file, placed,
                   result, exported, uploaded, fatal>>
    /\ UNCHANGED tvars
    /\ UNCHANGED mvars

\* generate_speech wrote speech_{idx}.mp3 and returned its path
GenerateSpeechOk ==
    /\ pc = "speech"
    /\ \E c \in Clips : audio_file' = [frame_rate |-> c.frame_rate, data |-> c.data]
    /\ pc' = "load"
    /\ UNCHANGED <<subtitles, idx, final_audio, placed, dutch_text, untranslated,
                   result, exported, uploaded, fatal>>
    /\ UNCHANGED tvars
    /\ UNCHANGED mvars

\* generate_speech returned None: "Skipping.", continue
GenerateSpeechFail ==
    /\ pc = "speech"
    /\ dutch_text' = ""
    /\ placed' = Append(placed, Absent)
    /\ pc' = AfterSkip(idx, subtitles)
    /\ idx' = IF idx < Len(subtitles) THEN idx + 1 ELSE idx
    /\ audio_file' = NoAudio
    /\ UNCHANGED <<subtitles, final_audio, untranslated, result, exported, uploaded,
                   fatal>>
    /\ UNCHANGED tvars
    /\ UNCHANGED mvars

\* speech_segment = AudioSegment.from_mp3(audio_file);
\* final_audio = final_audio.overlay(speech_segment, position=subtitle.start.ordinal)
LoadAndOverlay ==
    /\ pc = "load"
    /\ final_audio' = Overlay(final_audio, audio_file, subtitles[idx].start)
    /\ placed' = Append(placed, [present |-> TRUE,
                                 frame_rate |-> audio_file.frame_rate,
                                 data |-> audio_file.data])
    /\ pc' = NextCue(idx, subtitles)
    /\ idx' = IF idx < Len(subtitles) THEN idx + 1 ELSE idx
    /\ audio_file' = NoAudio
    /\ dutch_text' = ""
    /\ UNCHANGED <<subtitles, untranslated, result, exported, uploaded, fatal>>
    /\ UNCHANGED tvars
    /\ UNCHANGED mvars

\* AudioSegment.from_mp3 raised: "Error processing audio segment", continue
LoadFail ==
    /\ pc = "load"
    /\ placed' = Append(placed, Absent)
    /\ pc' = AfterSkip(idx, subtitles)
    /\ idx' = IF idx < Len(subtitles) THEN idx + 1 ELSE idx
    /\ audio_file' = NoAudio
    /\ dutch_text' = ""
    /\ UNCHANGED <<subtitles, final_audio, untranslated, result, exported, uploaded,
                   fatal>>
    /\ UNCHANGED tvars
    /\ UNCHANGED mvars

\* final_audio.export(output_file_path, format="mp3")
ExportOk ==
    /\ pc = "export"
    /\ exported' = TRUE
    /\ pc' = "upload"
    /\ UNCHANGED <<subtitles, idx, final_audio, audio_file, placed, dutch_text,
                   untranslated, result, uploaded, fatal>>
    /\ UNCHANGED tvars
    /\ UNCHANGED mvars

\* export raised: the outer except returns None
ExportFail ==
    /\ pc = "export"
    /\ ReturnNone("Unexpected error in main processing function")
    /\ UNCHANGED <<subtitles, idx, final_audio, audio_file, placed, dutch_text,
                   untranslated, exported, uploaded>>
    /\ UNCHANGED tvars
    /\ UNCHANGED mvars

\* upload_to_s3 returned True: return the S3 URI
UploadOk ==
    /\ pc = "upload"
    /\ uploaded' = TRUE
    /\ result' = S3Uri
    /\ pc' = "done"
    /\ UNCHANGED <<subtitles, idx, final_audio, audio_file, placed, dutch_text,
                   untranslated, exported, fatal>>
    /\ UNCHANGED tvars
    /\ UNCHANGED mvars

\* upload_to_s3 returned False: return None
UploadFail ==
    /\ pc = "upload"
    /\ ReturnNone("Failed to upload audio file to S3.")
    /\ UNCHANGED <<subtitles, idx, final_audio, audio_file, placed, dutch_text,
                   untranslated, exported, uploaded>>
    /\ UNCHANGED tvars
    /\ UNCHANGED mvars

Next ==
    \/ DownloadOk
    \/ DownloadFail
    \/ ParseOk
    \/ ParseFail
    \/ CreateBlank
    \/ NoSubtitles
    \/ Translate
    \/ GenerateSpeechOk
    \/ GenerateSpeechFail
    \/ LoadAndOverlay
    \/ LoadFail
    \/ ExportOk
    \/ ExportFail
    \/ UploadOk
    \/ UploadFail

Spec == Init /\ [][Next]_vars

----------------------------------------------------------------------------
(* The whole-transcript translate_text and synthesize_speech.               *)
(* A text is a sequence of characters; the character at place i of the     *)
(* body is the number i, so that a lost, repeated or moved character shows, *)
(* and a blank is 0.                                                       *)

\* the character limit of one Amazon Translate request
TranslateLimit == 5000
\* the character limit of one Amazon Polly request
PollyLimit == 1500

Space == 0

\* the body lengths tried: around every multiple of either limit
TextLens ==
    {n \in 0..(MaxChunks * TranslateLimit + MaxSlack) :
        \E lim \in {TranslateLimit, PollyLimit} :
            \E k \in 0..MaxChunks : \E d \in (0 - MaxSlack)..MaxSlack : n = k * lim + d}

\* lead blanks, the body 1..n, trail blanks
MakeText(lead, n, trail) ==
    [i \in 1..(lead + n + trail) |-> IF i > lead /\ i <= lead + n THEN i - lead ELSE Space]

Texts == {MakeText(lead, n, trail) : lead \in 0..MaxPad, n \in TextLens, trail \in 0..MaxPad}

RECURSIVE LeadingSpaces(_, _)
LeadingSpaces(text, i) ==
    IF i <= Len(text) /\ text[i] = Space THEN LeadingSpaces(text, i + 1) ELSE i - 1

RECURSIVE TrailingSpaces(_, _)
TrailingSpaces(text, i) ==
    IF i >= 1 /\ text[i] = Space THEN TrailingSpaces(text, i - 1) ELSE Len(text) - i

\* text.strip()
Strip(text) ==
    LET a == LeadingSpaces(text, 1)
    IN  IF a = Len(text) THEN <<>>
        ELSE SubSeq(text, a + 1, Len(text) - TrailingSpaces(text, Len(text)))

\* mutant of Chunks: the last, shorter chunk is left out
ChunksDropRemainder(text, limit) ==
    [k \in 1..(Len(text) \div limit) |-> SubSeq(text, (k - 1) * limit + 1, k * limit)]

\* [text[i:i+limit] for i in range(0, len(text), limit)]
Chunks(text, limit) ==
    [k \in 1..((Len(text) + limit - 1) \div limit) |->
        SubSeq(text, (k - 1) * limit + 1, Min(k * limit, Len(text)))]

\* response['TranslatedText'] for one request: every character translated
TranslatedText(chunk) == [i \in 1..Len(chunk) |-> 0 - chunk[i]]

\* response['AudioStream'].read() for one request: the sound of every character
AudioStream(chunk) == [i \in 1..Len(chunk) |-> <<chunk[i]>>]

\* ' '.join(translated_chunks)
RECURSIVE JoinSpace(_)
JoinSpace(parts) ==
    IF Len(parts) = 0 THEN <<>>
    ELSE IF Len(parts) = 1 THEN parts[1]
    ELSE parts[1] \o <<Space>> \o JoinSpace(Tail(parts))

\* the part files written to output_path one after the other
RECURSIVE Concat(_)
Concat(parts) ==
    IF Len(parts) = 0 THEN <<>> ELSE parts[1] \o Concat(Tail(parts))

InitChunk ==
    /\ pc = "idle"
    /\ subtitles = <<>>
    /\ idx = 0
    /\ final_audio = NoAudio
    /\ audio_file = NoAudio
    /\ placed = <<>>
    /\ dutch_text = ""
    /\ untranslated = 0
    /\ result = Running
    /\ exported = FALSE
    /\ uploaded = FALSE
    /\ fatal = ""
    /\ t_mode \in {"translate", "synth"}
    /\ t_pc = "start"
    /\ t_text \in Texts
    /\ t_chunks = <<>>
    /\ t_i = 0
    /\ t_requests = <<>>
    /\ t_out = <<>>
    /\ t_voice = ""
    /\ t_file = <<>>
    /\ t_result = Returned(Running, <<>>)
    /\ m_pc = "idle"
    /\ m_log = <<>>
    /\ m_ok = <<>>
    /\ m_fatal = ""
    /\ m_uploaded = FALSE
    /\ job_status = "NONE"
    /\ polls = 0
    /\ transcript = Returned(Running, <<>>)

\* translate_text: if len(text) > 5000, build the chunks; else one request
TranslateSplit ==
    /\ t_mode = "translate"
    /\ t_pc = "start"
    /\ IF Len(t_text) > TranslateLimit
       THEN /\ t_chunks' = Chunks(t_text, TranslateLimit)
            /\ t_i' = 1
            /\ t_pc' = "loop"
       ELSE /\ t_pc' = "single"
            /\ UNCHANGED <<t_chunks, t_i>>
    /\ UNCHANGED <<t_mode, t_text, t_requests, t_out, t_voice, t_file, t_result>>
    /\ UNCHANGED cvars
    /\ UNCHANGED mvars

\* one pass of `for chunk in chunks`: the request answers
TranslateChunkOk ==
    /\ t_mode = "translate"
    /\ t_pc = "loop"
    /\ t_i <= Len(t_chunks)
    /\ t_requests' = Append(t_requests, t_chunks[t_i])
    /\ t_out' = Append(t_out, TranslatedText(t_chunks[t_i]))
    /\ t_i' = t_i + 1
    /\ UNCHANGED <<t_mode, t_pc, t_text, t_chunks, t_voice, t_file, t_result>>
    /\ UNCHANGED cvars
    /\ UNCHANGED mvars

\* one pass of `for chunk in chunks`: the request raises, return None
TranslateChunkFail ==
    /\ t_mode = "translate"
    /\ t_pc = "loop"
    /\ t_i <= Len(t_chunks)
    /\ t_requests' = Append(t_requests, t_chunks[t_i])
    /\ t_result' = Returned(None, <<>>)
    /\ t_pc' = "done"
    /\ UNCHANGED <<t_mode, t_text, t_chunks, t_i, t_out, t_voice, t_file>>
    /\ UNCHANGED cvars
    /\ UNCHANGED mvars

\* return ' '.join(translated_chunks)
TranslateJoin ==
    /\ t_mode = "translate"
    /\ t_pc = "loop"
    /\ t_i > Len(t_chunks)
    /\ t_result' = Returned("str", JoinSpace(t_out))
    /\ t_pc' = "done"
    /\ UNCHANGED <<t_mode, t_text, t_chunks, t_i, t_requests, t_out, t_voice, t_file>>
    /\ UNCHANGED cvars
    /\ UNCHANGED mvars

\* the else branch: the whole text in one request, which answers
TranslateSingleOk ==
    /\ t_mode = "translate"
    /\ t_pc = "single"
    /\ t_requests' = Append(t_requests, t_text)
    /\ t_result' = Returned("str", TranslatedText(t_text))
    /\ t_pc' = "done"
    /\ UNCHANGED <<t_mode, t_text, t_chunks, t_i, t_out, t_voice, t_file>>
    /\ UNCHANGED cvars
    /\ UNCHANGED mvars

\* the else branch: the request raises, return None
TranslateSingleFail ==
    /\ t_mode = "translate"
    /\ t_pc = "single"
    /\ t_requests' = Append(t_requests, t_text)
    /\ t_result' = Returned(None, <<>>)
    /\ t_pc' = "done"
    /\ UNCHANGED <<t_mode, t_text, t_chunks, t_i, t_out, t_voice, t_file>>
    /\ UNCHANGED cvars
    /\ UNCHANGED mvars

\* synthesize_speech: text = text.strip(); empty text returns False
SynthStrip ==
    /\ t_mode = "synth"
    /\ t_pc = "start"
    /\ t_text' = Strip(t_text)
    /\ IF Len(Strip(t_text)) = 0
       THEN /\ t_result' = Returned("False", <<>>)
            /\ t_pc' = "done"
       ELSE /\ t_pc' = "voices"
            /\ UNCHANGED t_result
    /\ UNCHANGED <<t_mode, t_chunks, t_i, t_requests, t_out, t_voice, t_file>>
    /\ UNCHANGED cvars
    /\ UNCHANGED mvars

\* describe_voices answers: the first female voice, or 'Lotte' when there is
\* none; then the chunks are built if len(text) > 1500
SynthVoiceAndSplit ==
    /\ t_mode = "synth"
    /\ t_pc = "voices"
    /\ \E v \in {"female", "Lotte"} : t_voice' = v
    /\ IF Len(t_text) > PollyLimit
       THEN /\ t_chunks' = Chunks(t_text, PollyLimit)
            /\ t_i' = 1
            /\ t_pc' = "loop"
       ELSE /\ t_pc' = "single"
            /\ UNCHANGED <<t_chunks, t_i>>
    /\ UNCHANGED <<t_mode, t_text, t_requests, t_out, t_file, t_result>>
    /\ UNCHANGED cvars
    /\ UNCHANGED mvars

\* describe_voices raises: return False
SynthVoicesFail ==
    /\ t_mode = "synth"
    /\ t_pc = "voices"
    /\ t_result' = Returned("False", <<>>)
    /\ t_pc' = "done"
    /\ UNCHANGED <<t_mode, t_text, t_chunks, t_i, t_requests, t_out, t_voice, t_file>>
    /\ UNCHANGED cvars
    /\ UNCHANGED mvars

\* one pass of `for i, chunk in enumerate(chunks)`: the part file is written
SynthChunkOk ==
    /\ t_mode = "synth"
    /\ t_pc = "loop"
    /\ t_i <= Len(t_chunks)
    /\ t_requests' = Append(t_requests, t_chunks[t_i])
    /\ t_out' = Append(t_out, AudioStream(t_chunks[t_i]))
    /\ t_i' = t_i + 1
    /\ UNCHANGED <<t_mode, t_pc, t_text, t_chunks, t_voice, t_file, t_result>>
    /\ UNCHANGED cvars
    /\ UNCHANGED mvars

\* one pass of the loop: the request raises, return False
SynthChunkFail ==
    /\ t_mode = "synth"
    /\ t_pc = "loop"
    /\ t_i <= Len(t_chunks)
    /\ t_requests' = Append(t_requests, t_chunks[t_i])
    /\ t_result' = Returned("False", <<>>)
    /\ t_pc' = "done"
    /\ UNCHANGED <<t_mode, t_text, t_chunks, t_i, t_out, t_voice, t_file>>
    /\ UNCHANGED cvars
    /\ UNCHANGED mvars

\* the part files are written to output_path in list order and removed;
\* output_path exists: return True
SynthCombine ==
    /\ t_mode = "synth"
    /\ t_pc = "loop"
    /\ t_i > Len(t_chunks)
    /\ t_file' = Concat(t_out)
    /\ t_out' = <<>>
    /\ t_result' = Returned("True", <<>>)
    /\ t_pc' = "done"
    /\ UNCHANGED <<t_mode, t_text, t_chunks, t_i, t_requests, t_voice>>
    /\ UNCHANGED cvars
    /\ UNCHANGED mvars

\* the else branch: one request, its audio written to output_path
SynthSingleOk ==
    /\ t_mode = "synth"
    /\ t_pc = "single"
    /\ t_requests' = Append(t_requests, t_text)
    /\ t_file' = AudioStream(t_text)
    /\ t_result' = Returned("True", <<>>)
    /\ t_pc' = "done"
    /\ UNCHANGED <<t_mode, t_text, t_chunks, t_i, t_out, t_voice>>
    /\ UNCHANGED cvars
    /\ UNCHANGED mvars

\* the else branch: the request raises, return False
SynthSingleFail ==
    /\ t_mode = "synth"
    /\ t_pc = "single"
    /\ t_requests' = Append(t_requests, t_text)
    /\ t_result' = Returned("False", <<>>)
    /\ t_pc' = "done"
    /\ UNCHANGED <<t_mode, t_text, t_chunks, t_i, t_out, t_voice, t_file>>
    /\ UNCHANGED cvars
    /\ UNCHANGED mvars

NextChunk ==
    \/ TranslateSplit
    \/ TranslateChunkOk
    \/ TranslateChunkFail
    \/ TranslateJoin
    \/ TranslateSingleOk
    \/ TranslateSingleFail
    \/ SynthStrip
    \/ SynthVoiceAndSplit
    \/ SynthVoicesFail
    \/ SynthChunkOk
    \/ SynthChunkFail
    \/ SynthCombine
    \/ SynthSingleOk
    \/ SynthSingleFail

SpecChunk == InitChunk /\ [][NextChunk]_vars

----------------------------------------------------------------------------
(* main, simple_translate_and_synthesize and transcribe_audio.             *)

\* the steps of the pipeline, in the order main runs them
Order == <<"download", "extract", "transcribe", "translate", "synthesize",
           "combine", "upload">>

\* the statuses on which the polling loop breaks
TerminalStatus == {"COMPLETED", "FAILED"}

\* logger.error(msg); return
MainReturn(msg) ==
    /\ m_pc' = "done"
    /\ m_fatal' = msg

\* the call of translate_text / synthesize_speech on `text`
Call(mode, text) ==
    /\ t_mode' = mode
    /\ t_pc' = "start"
    /\ t_text' = text
    /\ t_chunks' = <<>>
    /\ t_i' = 0
    /\ t_requests' = <<>>
    /\ t_out' = <<>>
    /\ t_voice' = ""
    /\ t_file' = <<>>
    /\ t_result' = Returned(Running, <<>>)

InitMain ==
    /\ pc = "idle"
    /\ subtitles = <<>>
    /\ idx = 0
    /\ final_audio = NoAudio
    /\ audio_file = NoAudio
    /\ placed = <<>>
    /\ dutch_text = ""
    /\ untranslated = 0
    /\ result = Running
    /\ exported = FALSE
    /\ uploaded = FALSE
    /\ fatal = ""
    /\ t_mode = "idle"
    /\ t_pc = "idle"
    /\ t_text = <<>>
    /\ t_chunks = <<>>
    /\ t_i = 0
    /\ t_requests = <<>>
    /\ t_out = <<>>
    /\ t_voice = ""
    /\ t_file = <<>>
    /\ t_result = Returned(Running, <<>>)
    /\ m_pc = "download"
    /\ m_log = <<>>
    /\ m_ok = <<>>
    /\ m_fatal = ""
    /\ m_uploaded = FALSE
    /\ job_status = "NONE"
    /\ polls = 0
    /\ transcript = Returned(Running, <<>>)

\* Step 1: download_from_s3 returned True
MainDownloadOk ==
    /\ m_pc = "download"
    /\ m_log' = Append(m_log, "download")
    /\ m_ok' = Append(m_ok, "download")
    /\ m_pc' = "exists"
    /\ UNCHANGED <<m_fatal, m_uploaded, job_status, polls, transcript>>
    /\ UNCHANGED tvars
    /\ UNCHANGED cvars

\* Step 1: download_from_s3 returned False, or raised something other than
\* ClientError, which main's except logs
MainDownloadFail ==
    /\ m_pc = "download"
    /\ m_log' = Append(m_log, "download")
    /\ \E msg \in {"Failed to download video from S3", "Error in main process"} :
          MainReturn(msg)
    /\ UNCHANGED <<m_ok, m_uploaded, job_status, polls, transcript>>
    /\ UNCHANGED tvars
    /\ UNCHANGED cvars

\* os.path.exists(video_path) holds
MainVideoExists ==
    /\ m_pc = "exists"
    /\ m_pc' = "extract"
    /\ UNCHANGED <<m_log, m_ok, m_fatal, m_uploaded, job_status, polls, transcript>>
    /\ UNCHANGED tvars
    /\ UNCHANGED cvars

\* os.path.exists(video_path) fails: return
MainVideoMissing ==
    /\ m_pc = "exists"
    /\ MainReturn("Downloaded video file not found")
    /\ UNCHANGED <<m_log, m_ok, m_uploaded, job_status, polls, transcript>>
    /\ UNCHANGED tvars
    /\ UNCHANGED cvars

\* Step 2: extract_audio returned True
MainExtractOk ==
    /\ m_pc = "extract"
    /\ m_log' = Append(m_log, "extract")
    /\ m_ok' = Append(m_ok, "extract")
    /\ m_pc' = "t_upload"
    /\ UNCHANGED <<m_fatal, m_uploaded, job_status, polls, transcript>>
    /\ UNCHANGED tvars
    /\ UNCHANGED cvars

\* mutant of MainExtractFail: the failure is logged and main goes on
MainExtractFailGoesOn ==
    /\ m_pc = "extract"
    /\ m_log' = Append(m_log, "extract")
    /\ m_pc' = "t_upload"
    /\ UNCHANGED <<m_ok, m_fatal, m_uploaded, job_status, polls, transcript>>
    /\ UNCHANGED tvars
    /\ UNCHANGED cvars

\* Step 2: extract_audio returned False (or raised): return
MainExtractFail ==
    /\ m_pc = "extract"
    /\ m_log' = Append(m_log, "extract")
    /\ \E msg \in {"Failed to extract audio from video", "Error in main process"} :
          MainReturn(msg)
    /\ UNCHANGED <<m_ok, m_uploaded, job_status, polls, transcript>>
    /\ UNCHANGED tvars
    /\ UNCHANGED cvars

\* transcribe_audio: the audio file exists and is uploaded to S3
TranscribeUploadOk ==
    /\ m_pc = "t_upload"
    /\ m_log' = Append(m_log, "transcribe")
    /\ m_pc' = "t_start"
    /\ UNCHANGED <<m_ok, m_fatal, m_uploaded, job_status, polls, transcript>>
    /\ UNCHANGED tvars
    /\ UNCHANGED cvars

\* transcribe_audio: the audio file is missing or its upload failed:
\* return None, None
TranscribeUploadFail ==
    /\ m_pc = "t_upload"
    /\ m_log' = Append(m_log, "transcribe")
    /\ transcript' = Returned(None, <<>>)
    /\ m_pc' = "transcribed"
    /\ UNCHANGED <<m_ok, m_fatal, m_uploaded, job_status, polls>>
    /\ UNCHANGED tvars
    /\ UNCHANGED cvars

\* start_transcription_job answered: the job exists
TranscribeStartJobOk ==
    /\ m_pc = "t_start"
    /\ job_status' = "QUEUED"
    /\ m_pc' = "poll"
    /\ UNCHANGED <<m_log, m_ok, m_fatal, m_uploaded, polls, transcript>>
    /\ UNCHANGED tvars
    /\ UNCHANGED cvars

\* start_transcription_job raised: return None, None
TranscribeStartJobFail ==
    /\ m_pc = "t_start"
    /\ transcript' = Returned(None, <<>>)
    /\ m_pc' = "transcribed"
    /\ UNCHANGED <<m_log, m_ok, m_fatal, m_uploaded, job_status, polls>>
    /\ UNCHANGED tvars
    /\ UNCHANGED cvars

\* Amazon Transcribe works on the job, whatever the program does meanwhile
JobProgress ==
    /\ \/ job_status = "QUEUED" /\ job_status' \in {"IN_PROGRESS", "FAILED"}
       \/ job_status = "IN_PROGRESS" /\ job_status' \in {"COMPLETED", "FAILED"}
    /\ UNCHANGED <<m_pc, m_log, m_ok, m_fatal, m_uploaded, polls, transcript>>
    /\ UNCHANGED tvars
    /\ UNCHANGED cvars

\* mutant of AfterPoll: the loop also breaks once the job is IN_PROGRESS
AfterPollBreaksEarly(status) ==
    IF status \in TerminalStatus \cup {"IN_PROGRESS"} THEN "polled" ELSE "poll"

\* the pc after one get_transcription_job answer with status `status`:
\* break on COMPLETED or FAILED, else sleep 5 seconds and poll again
AfterPoll(status) == IF status \in TerminalStatus THEN "polled" ELSE "poll"

\* one pass of `while True`: get_transcription_job answers
TranscribePoll ==
    /\ m_pc = "poll"
    /\ polls' = Min(polls + 1, MaxPolls)
    /\ m_pc' = AfterPoll(job_status)
    /\ UNCHANGED <<m_log, m_ok, m_fatal, m_uploaded, job_status, transcript>>
    /\ UNCHANGED tvars
    /\ UNCHANGED cvars

\* one pass of `while True`: get_transcription_job raises: return None, None
TranscribePollRaises ==
    /\ m_pc = "poll"
    /\ polls' = Min(polls + 1, MaxPolls)
    /\ transcript' = Returned(None, <<>>)
    /\ m_pc' = "transcribed"
    /\ UNCHANGED <<m_log, m_ok, m_fatal, m_uploaded, job_status>>
    /\ UNCHANGED tvars
    /\ UNCHANGED cvars

\* what transcribe_audio returns after the loop for a job that ended with
\* `status` and whose transcript file reads `text`
TranscriptFor(status, text) ==
    IF status = "COMPLETED" THEN Returned("str", text) ELSE Returned(None, <<>>)

\* after the loop: COMPLETED, the transcript JSON is fetched and read; FAILED,
\* "Transcription job failed", return None, None
TranscribeResult ==
    /\ m_pc = "polled"
    /\ \E text \in Texts : transcript' = TranscriptFor(job_status, text)
    /\ m_pc' = "transcribed"
    /\ UNCHANGED <<m_log, m_ok, m_fatal, m_uploaded, job_status, polls>>
    /\ UNCHANGED tvars
    /\ UNCHANGED cvars

\* after the loop: COMPLETED, but requests.get or reading the JSON raises:
\* return None, None
TranscribeFetchRaises ==
    /\ m_pc = "polled"
    /\ job_status = "COMPLETED"
    /\ transcript' = Returned(None, <<>>)
    /\ m_pc' = "transcribed"
    /\ UNCHANGED <<m_log, m_ok, m_fatal, m_uploaded, job_status, polls>>
    /\ UNCHANGED tvars
    /\ UNCHANGED cvars

\* simple_translate_and_synthesize: the transcript is there, translate_text
\* is called on it
MainTranscribed ==
    /\ m_pc = "transcribed"
    /\ transcript.ret = "str"
    /\ Len(transcript.text) > 0
    /\ m_ok' = Append(m_ok, "transcribe")
    /\ m_log' = Append(m_log, "translate")
    /\ Call("translate", transcript.text)
    /\ m_pc' = "translate"
    /\ UNCHANGED <<m_fatal, m_uploaded, job_status, polls, transcript>>
    /\ UNCHANGED cvars

\* `if not transcript_text`: None or an empty transcript, return None
MainNoTranscript ==
    /\ m_pc = "transcribed"
    /\ ~(transcript.ret = "str" /\ Len(transcript.text) > 0)
    /\ MainReturn("Failed to transcribe audio")
    /\ UNCHANGED <<m_log, m_ok, m_uploaded, job_status, polls, transcript>>
    /\ UNCHANGED tvars
    /\ UNCHANGED cvars

\* translate_text returned a text, it is saved, synthesize_speech is called
MainTranslated ==
    /\ m_pc = "translate"
    /\ t_pc = "done"
    /\ t_result.ret = "str"
    /\ Len(t_result.text) > 0
    /\ m_ok' = Append(m_ok, "translate")
    /\ m_log' = Append(m_log, "synthesize")
    /\ Call("synth", t_result.text)
    /\ m_pc' = "synth"
    /\ UNCHANGED <<m_fatal, m_uploaded, job_status, polls, transcript>>
    /\ UNCHANGED cvars

\* translate_text returned a text, but writing translated_text.txt raises
MainSaveTextRaises ==
    /\ m_pc = "translate"
    /\ t_pc = "done"
    /\ t_result.ret = "str"
    /\ Len(t_result.text) > 0
    /\ m_ok' = Append(m_ok, "translate")
    /\ MainReturn("Error in simplified translation process")
    /\ UNCHANGED <<m_log, m_uploaded, job_status, polls, transcript>>
    /\ UNCHANGED tvars
    /\ UNCHANGED cvars

\* `if not translated_text`: return None
MainNoTranslation ==
    /\ m_pc = "translate"
    /\ t_pc = "done"
    /\ ~(t_result.ret = "str" /\ Len(t_result.text) > 0)
    /\ MainReturn("Failed to translate text")
    /\ UNCHANGED <<m_log, m_ok, m_uploaded, job_status, polls, transcript>>
    /\ UNCHANGED tvars
    /\ UNCHANGED cvars

\* synthesize_speech returned True: main goes on to Step 4
MainSynthesized ==
    /\ m_pc = "synth"
    /\ t_pc = "done"
    /\ t_result.ret = "True"
    /\ m_ok' = Append(m_ok, "synthesize")
    /\ m_pc' = "combine"
    /\ UNCHANGED <<m_log, m_fatal, m_uploaded, job_status, polls, transcript>>
    /\ UNCHANGED tvars
    /\ UNCHANGED cvars

\* synthesize_speech returned False: return None
MainNoSpeech ==
    /\ m_pc = "synth"
    /\ t_pc = "done"
    /\ t_result.ret # "True"
    /\ MainReturn("Failed to synthesize speech")
    /\ UNCHANGED <<m_log, m_ok, m_uploaded, job_status, polls, transcript>>
    /\ UNCHANGED tvars
    /\ UNCHANGED cvars

\* Step 4: combine_audio_with_video returned True
MainCombineOk ==
    /\ m_pc = "combine"
    /\ m_log' = Append(m_log, "combine")
    /\ m_ok' = Append(m_ok, "combine")
    /\ m_pc' = "upload"
    /\ UNCHANGED <<m_fatal, m_uploaded, job_status, polls, transcript>>
    /\ UNCHANGED tvars
    /\ UNCHANGED cvars

\* Step 4: combine_audio_with_video returned False: return
MainCombineFail ==
    /\ m_pc = "combine"
    /\ m_log' = Append(m_log, "combine")
    /\ MainReturn("Failed to combine audio with video")
    /\ UNCHANGED <<m_ok, m_uploaded, job_status, polls, transcript>>
    /\ UNCHANGED tvars
    /\ UNCHANGED cvars

\* Step 5: upload_to_s3 returned True: the run succeeded
MainUploadOk ==
    /\ m_pc = "upload"
    /\ m_log' = Append(m_log, "upload")
    /\ m_ok' = Append(m_ok, "upload")
    /\ m_uploaded' = TRUE
    /\ m_pc' = "done"
    /\ UNCHANGED <<m_fatal, job_status, polls, transcript>>
    /\ UNCHANGED tvars
    /\ UNCHANGED cvars

\* Step 5: upload_to_s3 returned False (or raised): return
MainUploadFail ==
    /\ m_pc = "upload"
    /\ m_log' = Append(m_log, "upload")
    /\ \E msg \in {"Failed to upload result to S3", "Error in main process"} :
          MainReturn(msg)
    /\ UNCHANGED <<m_ok, m_uploaded, job_status, polls, transcript>>
    /\ UNCHANGED tvars
    /\ UNCHANGED cvars

NextMain ==
    \/ MainDownloadOk
    \/ MainDownloadFail
    \/ MainVideoExists
    \/ MainVideoMissing
    \/ MainExtractOk
    \/ MainExtractFail
    \/ TranscribeUploadOk
    \/ TranscribeUploadFail
    \/ TranscribeStartJobOk
    \/ TranscribeStartJobFail
    \/ JobProgress
    \/ TranscribePoll
    \/ TranscribePollRaises
    \/ TranscribeResult
    \/ TranscribeFetchRaises
    \/ MainTranscribed
    \/ MainNoTranscript
    \/ NextChunk
    \/ MainTranslated
    \/ MainSaveTextRaises
    \/ MainNoTranslation
    \/ MainSynthesized
    \/ MainNoSpeech
    \/ MainCombineOk
    \/ MainCombineFail
    \/ MainUploadOk
    \/ MainUploadFail

SpecMain == InitMain /\ [][NextMain]_vars

----------------------------------------------------------------------------
(* What the claims speak of. *)

\* the timeline has been allocated
Started == idx > 0
\* the timeline's length in ms
Length == Len(final_audio.data)
\* the cues whose clip has been overlaid so far
PresentCues == {i \in 1..Len(placed) : placed[i].present}
\* the timeline positions (1-based ms) cue i's clip is placed on
Span(i) == (subtitles[i].start + 1)..(subtitles[i].start + Len(placed[i].data))
\* the sample of cue i's clip that is placed on position t
ClipAt(i, t) == placed[i].data[t - subtitles[i].start]
\* a sum brought into the sample range
Clamped(x) == IF x > MaxSample THEN MaxSample ELSE IF x < MinSample THEN MinSample ELSE x
\* every overlaid clip has one and the same frame rate
SameFormat == \A i, j \in PresentCues : placed[i].frame_rate = placed[j].frame_rate
\* a step that skips the current cue
SkipStep ==
    /\ pc \in {"speech", "load"}
    /\ Len(placed') = Len(placed) + 1
    /\ ~placed'[Len(placed')].present
\* a step that overlays the current cue's clip
OverlayStep ==
    /\ pc = "load"
    /\ Len(placed') = Len(placed) + 1
    /\ placed'[Len(placed')].present

----------------------------------------------------------------------------
\* C1: once the timeline is allocated its length is the end_ms of the last cue
\* of the list, and stays so through every overlay of the per-cue loop,
\* whatever clips are present or absent and however long they are.
C1_LengthIsLastCueEnd ==
    Started => Length = subtitles[Len(subtitles)].end

\* a finished run whose first clip was absent and whose last clip was longer
\* than the room the timeline had left for it
C1_Witness ==
    /\ result = S3Uri
    /\ Len(subtitles) = 2
    /\ ~placed[1].present
    /\ placed[2].present
    /\ subtitles[2].start + Len(placed[2].data) > subtitles[2].end
    /\ subtitles[2].end > 0

\* C2: an empty cue list ends the run with None; nothing is translated,
\* synthesized, overlaid, exported or uploaded and no timeline is allocated.
C2_EmptyCueListFails ==
    (pc \notin {"download", "parse", "blank"} /\ Len(subtitles) = 0)
        => /\ pc = "done"
           /\ result = None
           /\ ~exported
           /\ ~uploaded
           /\ final_audio = NoAudio
           /\ audio_file = NoAudio
           /\ placed = <<>>
           /\ dutch_text = ""

\* the run that parsed an empty cue list and returned
C2_Witness ==
    /\ pc = "done"
    /\ fatal = "No subtitles found in the SRT file"
    /\ subtitles = <<>>

\* C3: a cue whose clip is absent leaves the timeline as it was and does not
\* end the run: the loop goes on with the next cue (or to the export after the
\* last one), so the export is reached only with every cue processed.
C3_AbsentClipSkipped ==
    /\ [][SkipStep =>
            /\ final_audio' = final_audio
            /\ result' = Running
            /\ pc' = IF Len(placed') < Len(subtitles) THEN "translate" ELSE "export"]_vars
    /\ []((pc \in {"export", "upload"} \/ result = S3Uri) => Len(placed) = Len(subtitles))

\* a finished run that skipped its first cue and overlaid its second
C3_Witness ==
    /\ result = S3Uri
    /\ Len(placed) = 2
    /\ ~placed[1].present
    /\ placed[2].present
    /\ \E t \in 1..Length : final_audio.data[t] # 0

\* C4: overlaying a clip that ends after the timeline keeps the length; the
\* clip's samples that fall inside are mixed in at their positions, the rest
\* is dropped, and nothing before the clip's start is touched. A clip that
\* starts at or after the end changes nothing.
C4_ClipTruncatedAtEnd ==
    [][(OverlayStep /\ subtitles[idx].start + Len(audio_file.data) > Length) =>
         /\ Len(final_audio'.data) = Length
         /\ \A t \in 1..Length :
              final_audio'.data[t] =
                 IF t > subtitles[idx].start
                 THEN Clamped(final_audio.data[t] + audio_file.data[t - subtitles[idx].start])
                 ELSE final_audio.data[t]]_vars

\* a run that overlaid one clip reaching over the end and one starting at the end
C4_Witness ==
    /\ Len(placed) = 2
    /\ placed[1].present
    /\ placed[2].present
    /\ subtitles[1].start < Length
    /\ subtitles[1].start + Len(placed[1].data) > Length
    /\ subtitles[2].start >= Length
    /\ placed[1].data[1] # 0

\* C5: when the clips overlaid so far share one format, lie inside the
\* timeline and do not overlap, the timeline holds each clip's samples over
\* that clip's span and zero everywhere else.
C5_DisjointClipsExact ==
    (/\ Started
     /\ SameFormat
     /\ \A i \in PresentCues : subtitles[i].start + Len(placed[i].data) <= Length
     /\ \A i, j \in PresentCues : i # j => Span(i) \cap Span(j) = {})
        => \A t \in 1..Length :
              final_audio.data[t] =
                 IF \E i \in PresentCues : t \in Span(i)
                 THEN ClipAt(CHOOSE i \in PresentCues : t \in Span(i), t)
                 ELSE 0

\* a finished run with two disjoint clips inside the timeline, none of them silent
C5_Witness ==
    /\ result = S3Uri
    /\ PresentCues = {1, 2}
    /\ SameFormat
    /\ \A i \in PresentCues : subtitles[i].start + Len(placed[i].data) <= Length
    /\ Span(1) \cap Span(2) = {}
    /\ \A t \in 1..Length : final_audio.data[t] # 0

\* C6: every sample of the timeline is in the sample range, and where exactly
\* two clips of one format have been overlaid, each position both cover holds
\* the sum of their two samples brought into the sample range.
C6_OverlapSaturatedSum ==
    /\ Started => \A t \in 1..Length : final_audio.data[t] \in Samples
    /\ \A i, j \in PresentCues :
          (i < j /\ PresentCues = {i, j} /\ SameFormat)
             => \A t \in (Span(i) \cap Span(j)) \cap (1..Length) :
                   final_audio.data[t] = Clamped(ClipAt(i, t) + ClipAt(j, t))

\* a finished run with two overlapping clips whose sum leaves the range at
\* the top at one position and at the bottom at another
C6_Witness ==
    /\ result = S3Uri
    /\ PresentCues = {1, 2}
    /\ SameFormat
    /\ \E t \in (Span(1) \cap Span(2)) \cap (1..Length) :
          ClipAt(1, t) + ClipAt(2, t) > MaxSample
    /\ \E t \in (Span(1) \cap Span(2)) \cap (1..Length) :
          ClipAt(1, t) + ClipAt(2, t) < MinSample

\* the cue indices in ascending start_ms order (ties in list order)
SortedOrder(subs) ==
    CHOOSE f \in [1..Len(subs) -> 1..Len(subs)] :
        /\ \A a, b \in 1..Len(subs) : a # b => f[a] # f[b]
        /\ \A a, b \in 1..Len(subs) :
              a < b => \/ subs[f[a]].start < subs[f[b]].start
                       \/ (subs[f[a]].start = subs[f[b]].start /\ f[a] < f[b])

\* C7: a finished run's track is the track the same cues and clips give when
\* the list is sorted by start_ms (same length, same samples). Stated for the
\* cue lists a subtitle parser may hand over: end_ms >= start_ms in every cue.
C7_OrderIndependent ==
    (result = S3Uri /\ \A i \in 1..Len(subtitles) : subtitles[i].end >= subtitles[i].start) =>
        LET f == SortedOrder(subtitles)
            sortedSubs  == [k \in 1..Len(subtitles) |-> subtitles[f[k]]]
            sortedClips == [k \in 1..Len(subtitles) |-> placed[f[k]]]
        IN  final_audio.data = Composite(sortedSubs, sortedClips).data

\* C8: the timeline's length is the end_ms of the cue that is last in the
\* list even when an earlier cue ends later; what an earlier clip would place
\* beyond that length is dropped.
C8_LengthFromLastNotMax ==
    (Started /\ \E i \in 1..(Len(subtitles) - 1) :
                   subtitles[i].end > subtitles[Len(subtitles)].end)
        => /\ Length = subtitles[Len(subtitles)].end
           /\ \A i \in PresentCues :
                 PresentCues = {i} =>
                    \A t \in 1..Length :
                       final_audio.data[t] = IF t \in Span(i) THEN ClipAt(i, t) ELSE 0

\* a finished run whose first cue ends after the last one and whose first
\* clip reaches over the timeline's end
C8_Witness ==
    /\ result = S3Uri
    /\ Len(subtitles) = 2
    /\ subtitles[1].end > subtitles[2].end
    /\ PresentCues = {1}
    /\ subtitles[1].start < Length
    /\ subtitles[1].start + Len(placed[1].data) > Length
    /\ subtitles[1].start + Len(placed[1].data) <= subtitles[1].end

\* C9: a run in which an overlaid clip's frame rate differs from the
\* timeline's configured one does not go on to report success.
C9_FormatMismatchFails ==
    (\E i \in PresentCues : placed[i].frame_rate # SilentFrameRate)
        => result # S3Uri

----------------------------------------------------------------------------
\* the character limit of the function the chunk run is in
Limit == IF t_mode = "translate" THEN TranslateLimit ELSE PollyLimit
\* the number of requests a text of t_text's length takes
RequestCount ==
    IF Len(t_text) > Limit THEN (Len(t_text) + Limit - 1) \div Limit ELSE 1

\* C10: the requests issued so far are, in order, the consecutive pieces of
\* the text of at most 5000 characters (1500 for synthesize_speech), one
\* request per piece and one request in all for a text within the limit. A
\* translation that is returned holds every translated piece in text order
\* with one blank between two pieces; a run that did not get every piece
\* translated returns None. The output file of a successful synthesis holds
\* the audio of the pieces in text order.
C10_ChunksInOrder ==
    /\ Len(t_requests) <= RequestCount
    /\ \A k \in 1..Len(t_requests) :
          /\ Len(t_requests[k]) = Min(Limit, Len(t_text) - (k - 1) * Limit)
          /\ \A q \in 1..Len(t_requests[k]) :
                t_requests[k][q] = t_text[(k - 1) * Limit + q]
    /\ (t_mode = "translate" /\ t_result.ret = "str") =>
          /\ Len(t_requests) = RequestCount
          /\ Len(t_result.text) = Len(t_text) + RequestCount - 1
          /\ \A k \in 1..RequestCount :
                /\ \A q \in 1..Len(t_requests[k]) :
                      t_result.text[(k - 1) * (Limit + 1) + q]
                         = 0 - t_text[(k - 1) * Limit + q]
                /\ k < RequestCount => t_result.text[k * (Limit + 1)] = Space
    /\ (t_mode = "translate" /\ t_pc = "done" /\ Len(t_out) < Len(t_chunks)) =>
          t_result.ret = None
    /\ (t_mode = "synth" /\ t_result.ret = "True") =>
          /\ Len(t_requests) = RequestCount
          /\ Len(t_file) = Len(t_text)
          /\ \A j \in 1..Len(t_text) : t_file[j] = <<t_text[j]>>

\* a translation returned for a text of more than two full requests whose
\* last piece is shorter than the limit
C10_Witness ==
    /\ t_mode = "translate"
    /\ t_result.ret = "str"
    /\ Len(t_requests) = 3
    /\ Len(t_requests[3]) < TranslateLimit
    /\ Len(t_text) > 2 * TranslateLimit

----------------------------------------------------------------------------
\* C11: the steps main has started are a beginning of download, extract,
\* transcribe, translate, synthesize, combine, upload, in that order; a step
\* is started only when every step before it has reported success; an error
\* ends the run, after which no step is started; the target video is
\* uploaded only in a run in which the six steps before the upload succeeded.
C11_StepsInOrder ==
    /\ [](/\ Len(m_log) <= Len(Order)
          /\ m_log = SubSeq(Order, 1, Len(m_log))
          /\ Len(m_ok) <= Len(m_log)
          /\ m_ok = SubSeq(Order, 1, Len(m_ok))
          /\ Len(m_log) <= Len(m_ok) + 1
          /\ m_fatal # "" => (m_pc = "done" /\ ~m_uploaded)
          /\ m_pc = "done" => (m_uploaded <=> m_fatal = "")
          /\ m_uploaded => (m_ok = Order /\ m_pc = "done"))
    /\ [][m_pc = "done" =>
            (m_log' = m_log /\ m_ok' = m_ok /\ m_uploaded' = m_uploaded
             /\ m_pc' = "done" /\ m_fatal' = m_fatal)]_vars

\* the run in which all seven steps ran and the video was uploaded
C11_Witness ==
    /\ m_pc = "done"
    /\ m_uploaded
    /\ m_log = Order
    /\ m_ok = Order
    /\ m_fatal = ""

\* C12: the polling loop is left only with the job COMPLETED or FAILED, or
\* by a call that raised, which makes transcribe_audio return None; any other
\* status polls again, however many polls were made before; a transcript is
\* returned only for a COMPLETED job and None for a FAILED one.
C12_PollingLoop ==
    /\ [][(m_pc = "poll" /\ m_pc' # "poll") =>
            \/ (m_pc' = "polled" /\ job_status \in TerminalStatus
                /\ transcript' = transcript)
            \/ (m_pc' = "transcribed" /\ transcript'.ret = None)]_vars
    /\ [][(m_pc = "poll" /\ job_status \notin TerminalStatus
           /\ transcript' = transcript /\ polls' # polls) => m_pc' = "poll"]_vars
    /\ []((m_pc = "poll" /\ job_status \notin TerminalStatus) => ENABLED TranscribePoll)
    /\ [](transcript.ret \in {Running, None, "str"})
    /\ [](transcript.ret = "str" => job_status = "COMPLETED")
    /\ [](m_pc = "polled" => job_status \in TerminalStatus)
    /\ []((m_pc = "transcribed" /\ job_status # "COMPLETED") => transcript.ret = None)
    /\ [](m_pc \in {"transcribed", "translate", "synth", "combine", "upload"}
             => transcript.ret \in {None, "str"})

\* a transcript returned after the loop had polled MaxPolls times or more
C12_Witness ==
    /\ transcript.ret = "str"
    /\ job_status = "COMPLETED"
    /\ polls = MaxPolls
    /\ m_pc = "transcribed"

\* the errors srt_to_dutch_speech logs right before it returns None
FatalErrors ==
    {"Failed to download SRT file. Aborting.",
     "Error parsing SRT file",
     "No subtitles found in the SRT file",
     "Unexpected error in main processing function",
     "Failed to upload audio file to S3."}

\* C13: a translation failure neither skips the cue nor ends the run: the
\* source text goes to the synthesis, and its clip is overlaid at the cue's
\* start like any other clip (the timeline keeps its length and, clip and
\* timeline being of one frame rate, gets the saturated sum over the clip's
\* span and nothing else).  A run returns the S3 URI exactly when the cue
\* list is non-empty and export and upload succeeded, with every cue
\* processed and whatever the number of failed translations and absent
\* clips; it returns None exactly with one of the five fatal errors logged,
\* and the loop logs none of them.
C13_TranslationFailureGoesOn ==
    /\ [][pc = "translate" =>
            /\ pc' = "speech"
            /\ dutch_text' \in {"dutch", "source"}
            /\ <<idx, placed, final_audio, result, fatal>>' =
                   <<idx, placed, final_audio, result, fatal>>]_vars
    /\ []((pc = "speech" /\ dutch_text = "source") => ENABLED GenerateSpeechOk)
    /\ []((pc = "load" /\ dutch_text = "source") => ENABLED LoadAndOverlay)
    /\ [][(OverlayStep /\ dutch_text = "source") =>
            /\ final_audio' = Overlay(final_audio, audio_file, subtitles[idx].start)
            /\ Len(final_audio'.data) = Length
            /\ audio_file.frame_rate = final_audio.frame_rate =>
                  \A t \in 1..Length :
                      final_audio'.data[t] =
                          IF /\ t > subtitles[idx].start
                             /\ t <= subtitles[idx].start + Len(audio_file.data)
                          THEN Clamped(final_audio.data[t]
                                       + audio_file.data[t - subtitles[idx].start])
                          ELSE final_audio.data[t]]_vars
    /\ [][(pc \in {"translate", "speech", "load"}) =>
            /\ result' = Running
            /\ fatal' = fatal
            /\ fatal = ""]_vars
    /\ [](pc = "export" => ENABLED ExportOk)
    /\ [](pc = "upload" => ENABLED UploadOk)
    /\ [](untranslated <= Len(subtitles))
    /\ [](pc = "done" =>
            /\ result \in {S3Uri, None}
            /\ result = S3Uri <=> (Len(subtitles) > 0 /\ exported /\ uploaded)
            /\ result = S3Uri => (Len(placed) = Len(subtitles) /\ fatal = "")
            /\ result = None <=> fatal \in FatalErrors)

\* a successful run of two cues: both translation requests raised, the first
\* cue's synthesis failed as well, the second cue's source text was
\* synthesized and its clip overlaid
C13_Witness ==
    /\ result = S3Uri
    /\ Len(subtitles) = 2
    /\ untranslated = 2
    /\ ~placed[1].present
    /\ placed[2].present
    /\ \E t \in 1..Length : final_audio.data[t] # 0

====
